---------------------------- MODULE Spec2Model ----------------------------
(***************************************************************************)
(* Model of notion2latex.py: clean_and_convert_to_latex.                   *)
(*                                                                         *)
(* A text line is a sequence of one-character strings.  The pipeline is a  *)
(* state machine whose control position is pc; the duplicate-caption scan  *)
(* advances one loop iteration per step.                                   *)
(***************************************************************************)
EXTENDS Integers, Sequences, FiniteSets, TLC

(***************************************************************************)
(* Bounds of the model.                                                    *)
(***************************************************************************)
MaxLen == 4

(***************************************************************************)
(* Characters and the lines documents are built from.                      *)
(***************************************************************************)
NL == "\n"
SP == " "

\* characters that are whitespace to the patterns and to str.strip()
WS == {SP, NL}

\* "![a ](x)\n" : image reference whose caption trims to "a"
IMG == <<"!", "[", "a", SP, "]", "(", "x", ")", NL>>
\* "![ ]()\n" : image reference whose caption is empty after trimming
IMG0 == <<"!", "[", SP, "]", "(", ")", NL>>
\* " a\n" : text line that trims to "a"
CAP == <<SP, "a", NL>>
\* "\n" : blank line
BLANK == <<NL>>
\* "# **a** **b**\n" : level-1 heading with two bold spans
HEAD == <<"#", SP, "*", "*", "a", "*", "*", SP, "*", "*", "b", "*", "*", NL>>
\* "# \n" : heading marker followed by nothing but whitespace
HASHSP == <<"#", SP, NL>>

Pool == {IMG, IMG0, CAP, BLANK, HEAD, HASHSP}

RECURSIVE SeqsUpTo(_)
SeqsUpTo(n) ==
    IF n = 0 THEN {<<>>}
    ELSE LET prev == SeqsUpTo(n - 1)
         IN  prev \cup {Append(s, l) : s \in {p \in prev : Len(p) = n - 1}, l \in Pool}

Docs == SeqsUpTo(MaxLen)

(***************************************************************************)
(* String helpers.                                                         *)
(***************************************************************************)
SetMin(S) == CHOOSE x \in S : \A y \in S : x <= y
SetMax(S) == CHOOSE x \in S : \A y \in S : x >= y

\* str.strip()
Strip(s) ==
    LET nz == {k \in 1..Len(s) : s[k] \notin WS}
    IN  IF nz = {} THEN <<>> ELSE SubSeq(s, SetMin(nz), SetMax(nz))

\* str.startswith(p)
StartsWith(s, p) == Len(s) >= Len(p) /\ SubSeq(s, 1, Len(p)) = p

\* every character of s[a..b] is one the pattern's dot matches
DotRun(s, a, b) == \A k \in a..b : s[k] # NL

\* every character of s[a..b] is whitespace to the pattern
SpaceRun(s, a, b) == \A k \in a..b : s[k] \in WS

\* positions where the end anchor matches: end of string, or just before a final newline
AtEnd(s, m) == m = Len(s) \/ (m = Len(s) - 1 /\ s[Len(s)] = NL)


(***************************************************************************)
(* The image-reference pattern of re.match: optional whitespace, "![",     *)
(* a greedy capture (group 1), "](", any characters, ")", optional         *)
(* whitespace, end of line.                                                *)
(***************************************************************************)
\* the closing parenthesis at p, then whitespace up to the end of the line
ImageTail(line, p) ==
    /\ p <= Len(line)
    /\ line[p] = ")"
    /\ \E m \in p..Len(line) : SpaceRun(line, p + 1, m) /\ AtEnd(line, m)

\* group 1 is line[s+3..e] when the leading whitespace takes s characters
ImageSplit(line, s, e) ==
    /\ SpaceRun(line, 1, s)
    /\ s + 2 <= Len(line)
    /\ line[s + 1] = "!"
    /\ line[s + 2] = "["
    /\ e >= s + 2
    /\ DotRun(line, s + 3, e)
    /\ e + 2 <= Len(line)
    /\ line[e + 1] = "]"
    /\ line[e + 2] = "("
    /\ \E p \in (e + 3)..Len(line) : DotRun(line, e + 3, p - 1) /\ ImageTail(line, p)

\* the match object: matched, and group(1) as the greedy capture takes it
ImageMatch(line) ==
    LET n == Len(line)
        splits == {se \in (0..n) \X (0..n) : ImageSplit(line, se[1], se[2])}
    IN  IF splits = {} THEN [matched |-> FALSE, group1 |-> <<>>]
        ELSE LET s == SetMax({se[1] : se \in splits})
                 e == SetMax({se[2] : se \in {x \in splits : x[1] = s}})
             IN  [matched |-> TRUE, group1 |-> SubSeq(line, s + 3, e)]

(***************************************************************************)
(* heading_pattern: one or more "#" and one or more whitespace (group 1),  *)
(* two stars, a non-greedy capture (group 2), two stars, a greedy capture  *)
(* to the end of the line (group 3).  heading_pattern.sub replaces the     *)
(* match by group 1, group 2, group 3.                                     *)
(***************************************************************************)
\* group 1 is line[1..g], group 2 is line[g+3..k], group 3 is line[k+3..m]
HeadingSplit(line, g, k, m) ==
    /\ \E h \in 1..(g - 1) :
          /\ \A x \in 1..h : line[x] = "#"
          /\ SpaceRun(line, h + 1, g)
    /\ g + 2 <= Len(line)
    /\ line[g + 1] = "*"
    /\ line[g + 2] = "*"
    /\ k >= g + 2
    /\ DotRun(line, g + 3, k)
    /\ k + 2 <= Len(line)
    /\ line[k + 1] = "*"
    /\ line[k + 2] = "*"
    /\ m >= k + 2
    /\ m <= Len(line)
    /\ DotRun(line, k + 3, m)
    /\ AtEnd(line, m)

\* variant: group 2 taken greedily
HeadingSubGreedy(line) ==
    LET n == Len(line)
        splits == {t \in (1..n) \X (1..n) \X (1..n) : HeadingSplit(line, t[1], t[2], t[3])}
    IN  IF splits = {} THEN line
        ELSE LET g == SetMax({t[1] : t \in splits})
                 k == SetMax({t[2] : t \in {x \in splits : x[1] = g}})
                 m == SetMax({t[3] : t \in {x \in splits : x[1] = g /\ x[2] = k}})
             IN  SubSeq(line, 1, g) \o SubSeq(line, g + 3, k)
                    \o SubSeq(line, k + 3, m) \o SubSeq(line, m + 1, n)

HeadingSub(line) ==
    LET n == Len(line)
        splits == {t \in (1..n) \X (1..n) \X (1..n) : HeadingSplit(line, t[1], t[2], t[3])}
    IN  IF splits = {} THEN line
        ELSE LET g == SetMax({t[1] : t \in splits})
                 k == SetMin({t[2] : t \in {x \in splits : x[1] = g}})
                 m == SetMax({t[3] : t \in {x \in splits : x[1] = g /\ x[2] = k}})
             IN  SubSeq(line, 1, g) \o SubSeq(line, g + 3, k)
                    \o SubSeq(line, k + 3, m) \o SubSeq(line, m + 1, n)

(***************************************************************************)
(* Step 1.1: skip the first line if it is a redundant title.               *)
(***************************************************************************)
TitlePrefix == <<"#", SP>>

\* str.rstrip()
RStrip(s) ==
    LET nz == {k \in 1..Len(s) : s[k] \notin WS}
    IN  IF nz = {} THEN <<>> ELSE SubSeq(s, 1, SetMax(nz))

\* variant: the prefix test made on the line trimmed of trailing whitespace
IsTitleTrimmed(line) == StartsWith(RStrip(line), TitlePrefix)

IsTitle(line) == StartsWith(line, TitlePrefix)

ContentLines(ls) == IF IsTitle(ls[1]) THEN SubSeq(ls, 2, Len(ls)) ELSE ls

(***************************************************************************)
(* Step 1.2: one iteration of the duplicate-caption loop.  The cursor i    *)
(* and next_line_index are 0-based as in the source: content_lines[k] of   *)
(* the source is content[k + 1] here.                                      *)
(***************************************************************************)
\* image_match and image_match.group(1).strip()
HasCaption(m) == m.matched /\ Strip(m.group1) # <<>>

\* line.strip() of each line a document can hold, computed once
Stripped == [l \in Pool |-> Strip(l)]

\* the inner while loop, started at idx
RECURSIVE SkipBlank(_, _)
SkipBlank(content, idx) ==
    IF idx < Len(content) /\ Stripped[content[idx + 1]] = <<>>
    THEN SkipBlank(content, idx + 1)
    ELSE idx

\* variant: the comparison with the caption left out
IsDuplicateAnyLine(content, nli, alt_text) == nli < Len(content)

\* next_line_index < len(content_lines) and content_lines[next_line_index].strip() == alt_text
IsDuplicate(content, nli, alt_text) ==
    nli < Len(content) /\ Stripped[content[nli + 1]] = alt_text

\* variant: the slice started at the current line
BetweenFromCurrent(content, i0, nli) == SubSeq(content, i0 + 1, nli)

\* variant: the blank lines of the window not copied
BetweenDropped(content, i0, nli) == <<>>

\* content_lines[i + 1:next_line_index]
Between(content, i0, nli) == SubSeq(content, i0 + 2, nli)

\* variant: the cursor left on the caption line
AfterDuplicateStays(nli) == nli

\* variant: the cursor moved one line too far
AfterDuplicateSkipsTwo(nli) == nli + 2

\* i = next_line_index + 1
AfterDuplicate(nli) == nli + 1

\* the pattern applied to each line a document can hold, computed once
ImageMatches == [l \in Pool |-> ImageMatch(l)]

ScanIter(content, i0, cleaned) ==
    LET current_line == content[i0 + 1]
        image_match == ImageMatches[current_line]
        alt_text == Strip(image_match.group1)
        next_line_index == SkipBlank(content, i0 + 1)
    IN  IF HasCaption(image_match) /\ IsDuplicate(content, next_line_index, alt_text)
        THEN [i |-> AfterDuplicate(next_line_index),
              cleaned |-> Append(cleaned, current_line) \o Between(content, i0, next_line_index)]
        ELSE [i |-> i0 + 1, cleaned |-> Append(cleaned, current_line)]

\* the whole loop, from cursor i0
RECURSIVE ScanFrom(_, _, _)
ScanFrom(content, i0, cleaned) ==
    IF i0 < Len(content)
    THEN LET r == ScanIter(content, i0, cleaned) IN ScanFrom(content, r.i, r.cleaned)
    ELSE cleaned

Dedupe(content) == ScanFrom(content, 0, <<>>)

(***************************************************************************)
(* Step 1.3: the yes/no prompt and the heading rewrite.                    *)
(***************************************************************************)
Answers == {"y", "N", "x"}

\* str.lower() on the answers
Lower(a) == CASE a = "N" -> "n" [] a = "Y" -> "y" [] OTHER -> a

Accepted(a) == Lower(a) \in {"y", "n"}

Unbold(choice, cleaned) ==
    IF Lower(choice) = "y"
    THEN [k \in 1..Len(cleaned) |-> HeadingSub(cleaned[k])]
    ELSE cleaned

(***************************************************************************)
(* Step 2: the menu.                                                       *)
(***************************************************************************)
NumCustomTemplates == 4

NumMenuOptions == NumCustomTemplates + 2

\* answers to the menu prompt: a text int() rejects, or the text of an integer
NotANumber == [isint |-> FALSE, val |-> 0]

ChoiceStrs == {NotANumber} \cup {[isint |-> TRUE, val |-> n] : n \in 0..(NumMenuOptions + 1)}

\* variant: the lower limit of the range off by one
InRangeFromZero(c) == 0 <= c /\ c <= NumMenuOptions

InRange(c) == 1 <= c /\ c <= NumMenuOptions

\* variant: the result of the existence check not acted on
AfterTemplateCheckIgnored(exists) == "run"

\* lines 149-153: where the run goes after os.path.exists(chosen_template_path)
AfterTemplateCheck(exists) == IF exists THEN "run" ELSE "TemplateNotFound"

\* variant: the empty check left out
AfterReadUnchecked(ls) == "title"

\* lines 38-40: where the run goes after the file has been read
AfterRead(ls) == IF ls = <<>> THEN "EmptyInput" ELSE "title"

(***************************************************************************)
(* State.                                                                  *)
(***************************************************************************)
VARIABLES
    pc,              \* control position, or the outcome once the run has ended
    lines,           \* the lines read from the input file
    content_lines,   \* lines after step 1.1
    cleaned_lines,   \* the list built by step 1.2 and rewritten by step 1.3
    i,               \* cursor of the duplicate-caption loop
    unbold_choice,   \* last answer to the yes/no prompt
    user_choice,     \* last integer answer to the menu prompt
    prompted,        \* a prompt has been shown
    written,         \* the cleaned file has been written
    template_found,  \* result of the template existence check
    command,         \* flags appended to the base pandoc command
    invoked          \* subprocess.run has been called

vars == <<pc, lines, content_lines, cleaned_lines, i, unbold_choice, user_choice,
          prompted, written, template_found, command, invoked>>

Outcomes == {"InputNotFound", "ReadError", "EmptyInput", "WriteError", "TemplateNotFound",
             "ConverterNotFound", "ConverterFailed", "Unexpected", "Success"}

Init ==
    /\ pc = "start"
    /\ lines = <<>>
    /\ content_lines = <<>>
    /\ cleaned_lines = <<>>
    /\ i = 0
    /\ unbold_choice = ""
    /\ user_choice = 0
    /\ prompted = FALSE
    /\ written = FALSE
    /\ template_found = "unchecked"
    /\ command = <<>>
    /\ invoked = FALSE

\* lines 27-40: existence check, read, empty check
ReadInput ==
    /\ pc = "start"
    /\ \E r \in {"missing", "unreadable", "read"} :
          IF r = "read"
          THEN \E file \in Docs :
                  /\ lines' = file
                  /\ pc' = AfterRead(file)
          ELSE /\ pc' = IF r = "missing" THEN "InputNotFound" ELSE "ReadError"
               /\ UNCHANGED lines
    /\ UNCHANGED <<content_lines, cleaned_lines, i, unbold_choice, user_choice,
                   prompted, written, template_found, command, invoked>>

\* lines 43-47
StripTitle ==
    /\ pc = "title"
    /\ content_lines' = ContentLines(lines)
    /\ cleaned_lines' = <<>>
    /\ i' = 0
    /\ pc' = "scan"
    /\ UNCHANGED <<lines, unbold_choice, user_choice, prompted, written, template_found,
                   command, invoked>>

\* lines 48-66, one iteration
ScanStep ==
    /\ pc = "scan"
    /\ i < Len(content_lines)
    /\ LET r == ScanIter(content_lines, i, cleaned_lines)
       IN  /\ i' = r.i
           /\ cleaned_lines' = r.cleaned
    /\ UNCHANGED <<pc, lines, content_lines, unbold_choice, user_choice, prompted, written,
                   template_found, command, invoked>>

\* line 48 when the loop condition fails, lines 69-70
ScanDone ==
    /\ pc = "scan"
    /\ ~(i < Len(content_lines))
    /\ pc' = "ask_unbold"
    /\ UNCHANGED <<lines, content_lines, cleaned_lines, i, unbold_choice, user_choice,
                   prompted, written, template_found, command, invoked>>

\* lines 71-72, one pass of the prompt loop
AskUnbold ==
    /\ pc = "ask_unbold"
    /\ \E a \in Answers :
          /\ unbold_choice' = a
          /\ pc' = IF Accepted(a) THEN "unbold" ELSE "ask_unbold"
    /\ prompted' = TRUE
    /\ UNCHANGED <<lines, content_lines, cleaned_lines, i, user_choice, written,
                   template_found, command, invoked>>

\* lines 74-81
StripBold ==
    /\ pc = "unbold"
    /\ cleaned_lines' = Unbold(unbold_choice, cleaned_lines)
    /\ pc' = "save"
    /\ UNCHANGED <<lines, content_lines, i, unbold_choice, user_choice, prompted, written,
                   template_found, command, invoked>>

\* lines 84-93
SaveCleaned ==
    /\ pc = "save"
    /\ \E ok \in BOOLEAN :
          /\ written' = ok
          /\ pc' = IF ok THEN "menu" ELSE "WriteError"
    /\ UNCHANGED <<lines, content_lines, cleaned_lines, i, unbold_choice, user_choice,
                   prompted, template_found, command, invoked>>

\* lines 118-125, one pass of the menu loop
AskMenu ==
    /\ pc = "menu"
    /\ \E choice_str \in ChoiceStrs :
          IF ~choice_str.isint
          THEN UNCHANGED <<user_choice, pc>>
          ELSE /\ user_choice' = choice_str.val
               /\ pc' = IF InRange(choice_str.val) THEN "convert" ELSE "menu"
    /\ prompted' = TRUE
    /\ UNCHANGED <<lines, content_lines, cleaned_lines, i, unbold_choice, written,
                   template_found, command, invoked>>

\* lines 135-161
BuildCommand ==
    /\ pc = "convert"
    /\ IF 1 <= user_choice /\ user_choice <= NumCustomTemplates
       THEN \E exists \in BOOLEAN :
               /\ template_found' = IF exists THEN "yes" ELSE "no"
               /\ pc' = AfterTemplateCheck(exists)
               /\ command' = IF exists THEN <<"--template", user_choice>> ELSE command
       ELSE /\ command' = IF user_choice = NumCustomTemplates + 1
                          THEN <<"--standalone">> ELSE command
            /\ pc' = "run"
            /\ UNCHANGED template_found
    /\ UNCHANGED <<lines, content_lines, cleaned_lines, i, unbold_choice, user_choice,
                   prompted, written, invoked>>

\* lines 163-178
RunPandoc ==
    /\ pc = "run"
    /\ invoked' = TRUE
    /\ pc' \in {"Success", "ConverterNotFound", "ConverterFailed", "Unexpected"}
    /\ UNCHANGED <<lines, content_lines, cleaned_lines, i, unbold_choice, user_choice,
                   prompted, written, template_found, command>>

Next ==
    \/ ReadInput
    \/ StripTitle
    \/ ScanStep
    \/ ScanDone
    \/ AskUnbold
    \/ StripBold
    \/ SaveCleaned
    \/ AskMenu
    \/ BuildCommand
    \/ RunPandoc

Spec == Init /\ [][Next]_vars

\* the interpreter runs every step that is not a prompt; prompts wait for the user
FairSpec ==
    /\ Spec
    /\ WF_vars(ReadInput) /\ WF_vars(StripTitle) /\ WF_vars(ScanStep) /\ WF_vars(ScanDone)

TypeOK ==
    /\ pc \in Outcomes \cup {"start", "title", "scan", "ask_unbold", "unbold", "save",
                             "menu", "convert", "run"}
    /\ i \in 0..MaxLen
    /\ unbold_choice \in Answers \cup {""}
    /\ user_choice \in 0..(NumMenuOptions + 1)
    /\ prompted \in BOOLEAN /\ written \in BOOLEAN /\ invoked \in BOOLEAN
    /\ template_found \in {"unchecked", "yes", "no"}

(***************************************************************************)
(* Vocabulary of the properties, stated on whole lines and documents and   *)
(* independently of the loop above.  Indices here are 1-based.             *)
(***************************************************************************)
IsBlank(l) == \A k \in 1..Len(l) : l[k] \in WS

\* index of the first non-blank line after c, or Len(ls) + 1 when only blank lines follow
FirstNonBlankAfter(ls, c) ==
    LET nb == {k \in (c + 1)..Len(ls) : ~IsBlank(ls[k])}
    IN  IF nb = {} THEN Len(ls) + 1 ELSE SetMin(nb)

\* ls[c] is an image reference line with a caption that is not empty once trimmed
Qualifies(ls, c) ==
    LET m == ImageMatch(ls[c]) IN m.matched /\ ~IsBlank(m.group1)

\* ls[c] qualifies and the first non-blank line after it repeats its trimmed caption
DupWindow(ls, c) ==
    /\ Qualifies(ls, c)
    /\ LET j == FirstNonBlankAfter(ls, c)
       IN  j <= Len(ls) /\ Strip(ls[j]) = Strip(ImageMatch(ls[c]).group1)

IsPrefix(p, s) == Len(p) <= Len(s) /\ SubSeq(s, 1, Len(p)) = p

\* the lines of ls whose index is not in D, in order
RECURSIVE Without(_, _, _)
Without(ls, D, k) ==
    IF k > Len(ls) THEN <<>>
    ELSE IF k \in D THEN Without(ls, D, k + 1)
    ELSE <<ls[k]>> \o Without(ls, D, k + 1)

\* "# a **b**\n" : HEAD without its first bold span
HEADPLAIN == <<"#", SP, "a", SP, "*", "*", "b", "*", "*", NL>>

\* out is l with the two-star pairs at a, a+1 and b, b+1 deleted
StarsDeleted(l, a, b, out) ==
    out = SubSeq(l, 1, a - 1) \o SubSeq(l, a + 2, b - 1) \o SubSeq(l, b + 2, Len(l))

TwoStars(l, a) == a + 1 <= Len(l) /\ l[a] = "*" /\ l[a + 1] = "*"

\* l is '#'s, whitespace, a bold span opening at a: the marker ends at a - 1
BoldHeadingAt(l, a) ==
    /\ a >= 3
    /\ TwoStars(l, a)
    /\ \E h \in 1..(a - 2) :
          /\ \A x \in 1..h : l[x] = "#"
          /\ \A x \in (h + 1)..(a - 1) : l[x] \in WS
    /\ \E b \in (a + 2)..Len(l) : TwoStars(l, b)

\* the rewrite of l: the first bold span directly after the marker loses its stars
BoldStripped(l, out) ==
    IF \E a \in 1..Len(l) : BoldHeadingAt(l, a)
    THEN LET a == CHOOSE x \in 1..Len(l) : BoldHeadingAt(l, x)
             b == SetMin({y \in (a + 2)..Len(l) : TwoStars(l, y)})
         IN  StarsDeleted(l, a, b, out)
    ELSE out = l

(***************************************************************************)
(* Control positions.                                                      *)
(***************************************************************************)
\* the duplicate-caption loop has finished and step 1.3 has not yet rewritten its output
ScanFinished == pc \in {"ask_unbold", "unbold"}

\* step 1.3 has run
BoldDone == pc \in {"save", "menu", "convert", "run", "WriteError", "TemplateNotFound",
                    "ConverterNotFound", "ConverterFailed", "Unexpected", "Success"}

\* step 1.1 has run
TitleDone == pc = "scan" \/ ScanFinished \/ BoldDone

FlagOn == unbold_choice \in {"y", "Y"}

(***************************************************************************)
(* C1                                                                      *)
(***************************************************************************)
NoDuplicateLeft(ls) == \A c \in 1..Len(ls) : ~DupWindow(ls, c)

\* no duplicate caption line of ls is followed, across blank lines, by a line with
\* the same trimmed text
CaptionNotRepeated(ls) ==
    \A c \in 1..Len(ls) :
        DupWindow(ls, c) =>
            LET d == FirstNonBlankAfter(ls, c)
                e == FirstNonBlankAfter(ls, d)
            IN  ~(e <= Len(ls) /\ Strip(ls[e]) = Strip(ls[d]))

\* C1 as stated: duplicate-caption elimination is idempotent for every input: a second
\* pass over the output of the first changes nothing, and no qualifying image line of
\* that output is still followed by its caption.
C1_Idempotent ==
    ScanFinished =>
        /\ Dedupe(cleaned_lines) = cleaned_lines
        /\ NoDuplicateLeft(cleaned_lines)

\* C1 amended: the elimination is idempotent on every input in which no duplicate
\* caption line is itself followed, across zero or more blank lines, by another line
\* with the same trimmed text.
C1_IdempotentUnlessRepeated ==
    (ScanFinished /\ CaptionNotRepeated(content_lines)) =>
        /\ Dedupe(cleaned_lines) = cleaned_lines
        /\ NoDuplicateLeft(cleaned_lines)

C1_Witness ==
    /\ pc = "ask_unbold"
    /\ content_lines = <<IMG, BLANK, CAP, IMG>>
    /\ cleaned_lines = <<IMG, BLANK, IMG>>

(***************************************************************************)
(* C2                                                                      *)
(***************************************************************************)
\* C2: when the cursor is on a qualifying image line whose first following non-blank
\* line (at j) repeats the trimmed caption, the iteration emits the image line and
\* the blank lines up to j unchanged and in order, and moves the cursor just past j:
\* exactly the line at j is left out.
C2_OneCaptionRemoved ==
    [][(pc = "scan" /\ i < Len(content_lines) /\ DupWindow(content_lines, i + 1)) =>
          LET j == FirstNonBlankAfter(content_lines, i + 1)
          IN  /\ cleaned_lines' = cleaned_lines \o SubSeq(content_lines, i + 1, j - 1)
              /\ i' = j
              /\ (i' - i) - (Len(cleaned_lines') - Len(cleaned_lines)) = 1]_vars

C2_Witness ==
    /\ pc = "scan"
    /\ content_lines = <<IMG, BLANK, BLANK, CAP>>
    /\ i = 4
    /\ cleaned_lines = <<IMG, BLANK, BLANK>>

(***************************************************************************)
(* C3                                                                      *)
(***************************************************************************)
\* C3: when the line at the cursor is not a qualifying image line, or the first
\* non-blank line after it does not repeat its caption, or only blank lines follow,
\* the output of the loop continues with that line, every blank line after it and
\* the non-matching line, unchanged and in order.
C3_NothingRemoved ==
    (pc = "scan" /\ i < Len(content_lines) /\ ~DupWindow(content_lines, i + 1)) =>
        LET j == FirstNonBlankAfter(content_lines, i + 1)
            last == IF j <= Len(content_lines) THEN j ELSE Len(content_lines)
        IN  IsPrefix(cleaned_lines \o SubSeq(content_lines, i + 1, last),
                     ScanFrom(content_lines, i, cleaned_lines))

C3_Witness ==
    /\ pc = "scan"
    /\ content_lines = <<IMG, BLANK, HEAD, BLANK>>
    /\ i = 3
    /\ cleaned_lines = <<IMG, BLANK, HEAD>>

(***************************************************************************)
(* C4                                                                      *)
(***************************************************************************)
\* line d of the file is one the normalizer deletes: the leading title, or the
\* duplicate caption of the image line before it
Deletable(ls, d) ==
    \/ d = 1 /\ Len(ls[1]) >= 2 /\ ls[1][1] = "#" /\ ls[1][2] = SP
    \/ \E c \in 1..(d - 1) : DupWindow(ls, c) /\ FirstNonBlankAfter(ls, c) = d

\* out is kept, or with the flag on its bold-stripped rewrite
KeptAs(kept, out, flag) ==
    /\ Len(out) = Len(kept)
    /\ \A k \in 1..Len(kept) :
          \/ out[k] = kept[k]
          \/ flag /\ BoldStripped(kept[k], out[k])

\* C4: once the loop has finished, the cleaned lines are the input lines with some
\* deletable lines (the first line, duplicate-caption lines) left out, in the original
\* order, each kept line identical to its original or, only with the flag on and only
\* after step 1.3, the bold-stripped rewrite of that line.
C4_DeletesOnly ==
    (ScanFinished \/ BoldDone) =>
        \E D \in SUBSET (1..Len(lines)) :
            /\ \A d \in D : Deletable(lines, d)
            /\ KeptAs(Without(lines, D, 1), cleaned_lines, BoldDone /\ FlagOn)

C4_Witness ==
    /\ pc = "save"
    /\ FlagOn
    /\ lines = <<HEAD, IMG, CAP, HEAD>>
    /\ cleaned_lines = <<IMG, HEADPLAIN>>

(***************************************************************************)
(* C5                                                                      *)
(***************************************************************************)
BeginsHashSpace(l) == Len(l) >= 2 /\ l[1] = "#" /\ l[2] = SP

\* content is ls without its first line
FirstDropped(ls, content) ==
    /\ Len(content) = Len(ls) - 1
    /\ \A k \in 1..Len(content) : content[k] = ls[k + 1]

\* C5 as stated: the first line is dropped exactly when, trimmed of trailing
\* whitespace, it begins with "# "; no other line is dropped by this step.
C5_TitleDroppedTrimmed ==
    TitleDone =>
        IF BeginsHashSpace(RStrip(lines[1]))
        THEN FirstDropped(lines, content_lines)
        ELSE content_lines = lines

\* C5 amended: the first line is dropped exactly when the line as read, not trimmed,
\* begins with "# "; no other line is dropped by this step.
C5_TitleDroppedAsRead ==
    TitleDone =>
        IF BeginsHashSpace(lines[1])
        THEN FirstDropped(lines, content_lines)
        ELSE content_lines = lines

C5_Witness ==
    /\ pc = "scan"
    /\ lines = <<HEAD, HASHSP, CAP>>
    /\ content_lines = <<HASHSP, CAP>>

(***************************************************************************)
(* C6                                                                      *)
(***************************************************************************)
\* C6: step 1.3 with the flag on rewrites each line that is a marker, a bold span and
\* a remainder to marker, text and remainder, deleting the stars of the first bold
\* span only, and leaves every other line as it is; with the flag off it leaves every
\* line as it is.
C6_BoldStripped ==
    [][pc = "unbold" =>
          /\ Len(cleaned_lines') = Len(cleaned_lines)
          /\ \A k \in 1..Len(cleaned_lines) :
                /\ FlagOn => BoldStripped(cleaned_lines[k], cleaned_lines'[k])
                /\ (FlagOn /\ cleaned_lines[k] = HEAD) => cleaned_lines'[k] = HEADPLAIN
                /\ ~FlagOn => cleaned_lines'[k] = cleaned_lines[k]]_vars

C6_Witness ==
    /\ pc = "save"
    /\ FlagOn
    /\ content_lines = <<IMG0, HEAD, HASHSP>>
    /\ cleaned_lines = <<IMG0, HEADPLAIN, HASHSP>>

(***************************************************************************)
(* C7                                                                      *)
(***************************************************************************)
\* C7: a file with no lines, once read, ends the run with the empty-input outcome;
\* in that outcome no prompt has been shown, no cleaned file written and the
\* converter not invoked, and no step follows.
C7_EmptyInputAborts ==
    /\ (lines = <<>> /\ pc \notin {"start", "InputNotFound", "ReadError"}) => pc = "EmptyInput"
    /\ pc = "EmptyInput" =>
          /\ lines = <<>>
          /\ ~prompted /\ ~written /\ ~invoked
          /\ ~ENABLED Next

C7_Witness == pc = "EmptyInput" /\ lines = <<>> /\ ~prompted

(***************************************************************************)
(* C8                                                                      *)
(***************************************************************************)
\* C8: when the file of the chosen named template (choice 1..N) does not exist, the
\* run ends with the template-not-found outcome, the converter not invoked, and no
\* step follows.
C8_TemplateNotFound ==
    /\ template_found = "no" =>
          /\ pc = "TemplateNotFound"
          /\ user_choice \in 1..NumCustomTemplates
    /\ pc = "TemplateNotFound" =>
          /\ template_found = "no"
          /\ ~invoked
          /\ command = <<>>
          /\ ~ENABLED Next

C8_Witness == pc = "TemplateNotFound" /\ user_choice = NumCustomTemplates /\ written

(***************************************************************************)
(* C9                                                                      *)
(***************************************************************************)
\* C9 as stated: every invalid choice, a missing template file included, leads back to
\* the prompt and never to a terminal failure.
C9_AllChoicesRecoverable ==
    /\ pc # "TemplateNotFound"
    /\ template_found = "no" => pc = "menu"

PastMenu == pc \in {"convert", "run", "TemplateNotFound", "ConverterNotFound",
                    "ConverterFailed", "Unexpected", "Success"}

\* C9 amended: a non-integer answer and an out-of-range index lead back to the prompt,
\* and the menu loop only finishes with an in-range index; a named-template choice
\* whose file is missing is not re-prompted: it ends the run with the
\* template-not-found outcome.
C9_RangeRecoverableTemplateFatal ==
    /\ [](PastMenu => user_choice \in 1..NumMenuOptions)
    /\ [](template_found = "no" => pc = "TemplateNotFound")
    /\ [][pc = "menu" =>
            /\ prompted'
            /\ IF user_choice' \in 1..NumMenuOptions THEN pc' = "convert" ELSE pc' = "menu"]_vars

C9_Witness == pc = "menu" /\ prompted /\ user_choice = NumMenuOptions + 1

(***************************************************************************)
(* C10                                                                     *)
(***************************************************************************)
\* one iteration consumes content[i+1..i'], emitting each of these lines once and in
\* order, except that the last of them may be left out
ConsumesOnce ==
    LET taken == SubSeq(content_lines, i + 1, i')
    IN  /\ i' > i
        /\ i' <= Len(content_lines)
        /\ \/ cleaned_lines' = cleaned_lines \o taken
           \/ /\ cleaned_lines' = cleaned_lines \o SubSeq(taken, 1, Len(taken) - 1)
              /\ DupWindow(content_lines, i + 1)

\* C10: the loop terminates; on every iteration the cursor strictly increases and
\* stays within the number of lines, the lookahead index stays within [i+1, len], and
\* every line is consumed once, emitted or left out as a caption, so that the output
\* is never longer than the part consumed and at the end the whole input is consumed.
C10_ScanTerminates ==
    /\ [](pc = "scan" =>
            /\ i <= Len(content_lines)
            /\ Len(cleaned_lines) <= i
            /\ i < Len(content_lines) =>
                  SkipBlank(content_lines, i + 1) \in (i + 1)..Len(content_lines))
    /\ [](ScanFinished => i = Len(content_lines))
    /\ [][pc = "scan" => (pc' = "scan" => ConsumesOnce)]_vars
    /\ (pc = "scan") ~> (pc = "ask_unbold")

C10_Witness ==
    /\ pc = "ask_unbold"
    /\ ~prompted
    /\ i = 4
    /\ Len(content_lines) = 4
    /\ Len(cleaned_lines) = 2

=============================================================================
